---- MODULE Spec2Model ----
(***************************************************************************)
(* Model of tpot2/search_spaces/pipelines/dynamic_linear.py:               *)
(* DynamicLinearPipelineIndividual (a variable-length list of Steps drawn  *)
(* from one search space) and its generator DynamicLinearPipeline.         *)
(*                                                                         *)
(* A Step is a record [obj, uid]: obj is the identity of the Python object *)
(* and uid is what its unique_id() currently returns.  Indexes are         *)
(* 0-based as in the source; sequence position idx+1 holds list item idx.  *)
(*                                                                         *)
(* The search space and the Steps are not part of this file.  They follow  *)
(* the Step contract: generate returns a new Step (unique_id NewLabel),    *)
(* mutate may change the Step's unique_id, crossover returns True after    *)
(* taking the other Step's content, returns False or raises.               *)
(*                                                                         *)
(* Every operation replaces the rng it is given by np.random.default_rng() *)
(* so each random draw is a free choice and the seed parameter of the      *)
(* operators below is read by none of them.  An operation is modelled as   *)
(* the set of results it can have (...Outcomes); the action commits one.   *)
(* `last` records the most recent call: its name, the individuals, what    *)
(* it returned or raised.  Crossover is between two different individuals. *)
(***************************************************************************)
EXTENDS Integers, Sequences, FiniteSets, TLC

\* ---------------------------------------------------------------- bounds
MaxLengthBound == 5      \* largest max_length given to the generator (Spec)
MaxSwapLength == 6       \* largest max_length of the populations of SpecSwap
MaxOps == 2              \* number of calls made on the population (Spec)

Individuals == {1, 2}    \* population slots
Labels == {"A", "B"}     \* values a Step's unique_id() can take
NewLabel == "A"          \* unique_id() of a Step the search space just made
Seeds == {0, 1}          \* values the caller passes as rng

\* ------------------------------------------------------ program constants
min_length == 1
LengthCap == 3
Token == "DynamicLinearPipeline"

VARIABLES max_length, pipeline, last, nops

vars == <<max_length, pipeline, last, nops>>

Min(a, b) == IF a < b THEN a ELSE b
Max(a, b) == IF a > b THEN a ELSE b

\* ----------------------------------------------------------- list helpers
Objs(p) == {p[k].obj : k \in DOMAIN p}
UidSeq(p) == [k \in DOMAIN p |-> p[k].uid]
StepsOf(p) == {p[k] : k \in DOMAIN p}

\* list.pop(idx)
RemoveAt(p, idx) == SubSeq(p, 1, idx) \o SubSeq(p, idx + 2, Len(p))
\* list.insert(idx, x)
InsertAt(p, idx, x) == SubSeq(p, 1, idx) \o <<x>> \o SubSeq(p, idx + 1, Len(p))

\* ------------------------------------------------------------- randomness
\* rng.integers(low, high): the half-open range [low, high)
RngIntegers(low, high) == low .. (high - 1)

\* rng.choice(len, n, replace=False): n distinct indexes of range(len), in
\* the order drawn
RngChoiceNoReplace(len, n) ==
    {s \in [1 .. n -> 0 .. (len - 1)] :
        \A a, b \in 1 .. n : a # b => s[a] # s[b]}

\* ------------------------------------------------ search space and Steps
FreshObj(used) ==
    CHOOSE o \in 1 .. (Cardinality(used) + 1) :
        o \notin used /\ \A q \in 1 .. (o - 1) : q \in used

\* search_space.generate(rng): a Step that is in no pipeline
SearchSpaceGenerate(used) ==
    {[obj |-> FreshObj(used), uid |-> NewLabel]}

\* step.mutate(rng): the Step keeps its identity, its unique_id may change
StepMutate(step) == {[step EXCEPT !.uid = l] : l \in Labels}

\* step.crossover(other, rng): "True" takes the other Step's content,
\* "False" changes nothing, "raise" is an error raised by the Step
StepCrossoverResults == {"True", "False", "raise"}
StepCrossover(step, other, res) ==
    IF res = "True" THEN [step EXCEPT !.uid = other.uid] ELSE step

\* ------------------------------------------------------------ construction
\* length = rng.integers(min_length, max_length); length = min(length, 3)
GenLengthsNoCap(maxlen) == RngIntegers(min_length, maxlen)

GenLengths(maxlen) ==
    {Min(l, LengthCap) : l \in RngIntegers(min_length, maxlen)}

RECURSIVE GenLoop(_, _, _)
GenLoop(p, used, n) ==
    IF n = 0 THEN {p}
    ELSE UNION {GenLoop(Append(p, s), used \cup {s.obj}, n - 1) :
                  s \in SearchSpaceGenerate(used)}

\* _generate_pipeline; the rng handed in is replaced by default_rng()
GenerateOutcomes(maxlen, used, seed) ==
    UNION {GenLoop(<<>>, used, length) : length \in GenLengths(maxlen)}

\* ---------------------------------------------------------------- mutate
MutateRemoveNode(p, seed) ==
    {[pipeline |-> RemoveAt(p, idx), chosen |-> "remove"] :
        idx \in RngIntegers(0, Len(p))}

MutateAddNode(p, used, seed) ==
    UNION {{[pipeline |-> InsertAt(p, idx, new_node), chosen |-> "add"] :
              idx \in RngIntegers(0, Len(p))} :
           new_node \in SearchSpaceGenerate(used)}

MutateStep(p, seed) ==
    UNION {{[pipeline |-> [p EXCEPT ![k] = s], chosen |-> "step"] :
              s \in StepMutate(p[k])} :
           k \in 1 .. Len(p)}

MutateOutcomesOffByOne(p, maxlen, used, seed) ==
    (IF Len(p) > min_length THEN MutateRemoveNode(p, seed) ELSE {})
    \cup (IF Len(p) <= maxlen THEN MutateAddNode(p, used, seed) ELSE {})
    \cup MutateStep(p, seed)

\* mutate: the options list, then rng.choice(options)(rng)
MutateOutcomes(p, maxlen, used, seed) ==
    (IF Len(p) > min_length THEN MutateRemoveNode(p, seed) ELSE {})
    \cup (IF Len(p) < maxlen THEN MutateAddNode(p, used, seed) ELSE {})
    \cup MutateStep(p, seed)

\* -------------------------------------------------------------- crossover
\* a[i] = b[j]; b[j] = a[i]
RECURSIVE SwapLoopSequential(_, _, _, _, _)
SwapLoopSequential(ps, po, sidx, oidx, k) ==
    IF k > Len(sidx) THEN [self |-> ps, other |-> po]
    ELSE SwapLoopSequential([ps EXCEPT ![sidx[k] + 1] = po[oidx[k] + 1]],
                            po, sidx, oidx, k + 1)

\* b[j] = a[i]; a[i] = b[j]
RECURSIVE SwapLoopMirrored(_, _, _, _, _)
SwapLoopMirrored(ps, po, sidx, oidx, k) ==
    IF k > Len(sidx) THEN [self |-> ps, other |-> po]
    ELSE SwapLoopMirrored(ps,
                          [po EXCEPT ![oidx[k] + 1] = ps[sidx[k] + 1]],
                          sidx, oidx, k + 1)

\* the zip loop of _crossover_swap_random_steps, pair k onwards
RECURSIVE SwapLoop(_, _, _, _, _)
SwapLoop(ps, po, sidx, oidx, k) ==
    IF k > Len(sidx) THEN [self |-> ps, other |-> po]
    ELSE SwapLoop([ps EXCEPT ![sidx[k] + 1] = po[oidx[k] + 1]],
                  [po EXCEPT ![oidx[k] + 1] = ps[sidx[k] + 1]],
                  sidx, oidx, k + 1)

SwapMaxSteps(ps, po) == Max(Min(Len(ps), Len(po)) \div 2, 1)

SwapNStepsInclusive(max_steps) ==
    IF max_steps = 1 THEN {1} ELSE 1 .. max_steps

SwapNSteps(max_steps) ==
    IF max_steps = 1 THEN {1} ELSE RngIntegers(1, max_steps)

SwapOutcomes(ps, po, seed) ==
    UNION {UNION {{[self |-> SwapLoop(ps, po, sidx, oidx, 1).self,
                    other |-> SwapLoop(ps, po, sidx, oidx, 1).other,
                    ret |-> "True", at |-> -1, n |-> n, delegated |-> {}] :
                     sidx \in RngChoiceNoReplace(Len(ps), n)} :
                  oidx \in RngChoiceNoReplace(Len(po), n)} :
           n \in SwapNSteps(SwapMaxSteps(ps, po))}

\* the loop of _crossover_inner_step from list item idx on; draw[idx+1] is
\* "skip" when rng.random() >= 0.5 and else the result of the Step crossover
InnerDraws == {"skip"} \cup StepCrossoverResults

RECURSIVE InnerLoop(_, _, _, _, _, _)
InnerLoop(ps, po, draw, idx, success, delegated) ==
    IF idx >= Len(ps)
    THEN [self |-> ps, other |-> po,
          ret |-> IF success THEN "True" ELSE "False",
          at |-> -1, n |-> 0, delegated |-> delegated]
    ELSE IF draw[idx + 1] = "skip"
    THEN InnerLoop(ps, po, draw, idx + 1, success, delegated)
    ELSE IF idx >= Len(po)
    THEN [self |-> ps, other |-> po, ret |-> "IndexError",
          at |-> idx, n |-> 0, delegated |-> delegated]
    ELSE IF draw[idx + 1] = "raise"
    THEN [self |-> ps, other |-> po, ret |-> "StepError",
          at |-> idx, n |-> 0, delegated |-> delegated]
    ELSE InnerLoop(
           [ps EXCEPT ![idx + 1] =
               StepCrossover(ps[idx + 1], po[idx + 1], draw[idx + 1])],
           po, draw, idx + 1,
           success \/ draw[idx + 1] = "True",
           delegated \cup {draw[idx + 1]})

InnerStepOutcomes(ps, po, seed) ==
    {InnerLoop(ps, po, draw, 0, FALSE, {}) :
        draw \in [1 .. Len(ps) -> InnerDraws]}

Booleans == {"True", "False"}
Errors == {"IndexError", "StepError"}

StrategyOutcomes(name, ps, po, seed) ==
    IF name = "swap_random_steps" THEN SwapOutcomes(ps, po, seed)
    ELSE InnerStepOutcomes(ps, po, seed)

Call(name, o) == [name |-> name, ret |-> o.ret]

\* every strategy is run, the results are or-ed
CrossoverOutcomesNoShortCircuit(ps, po, seed) ==
    UNION {UNION {
        IF o1.ret \in Errors
        THEN {[self |-> o1.self, other |-> o1.other, ret |-> o1.ret,
               at |-> o1.at, n |-> o1.n, delegated |-> o1.delegated,
               order |-> order, calls |-> <<Call(order[1], o1)>>]}
        ELSE {[self |-> o2.self, other |-> o2.other,
               ret |-> IF o2.ret \in Errors THEN o2.ret
                       ELSE IF o1.ret = "True" \/ o2.ret = "True"
                       THEN "True" ELSE "False",
               at |-> o2.at, n |-> Max(o1.n, o2.n),
               delegated |-> o1.delegated \cup o2.delegated,
               order |-> order,
               calls |-> <<Call(order[1], o1), Call(order[2], o2)>>] :
                 o2 \in StrategyOutcomes(order[2], o1.self, o1.other, seed)} :
            o1 \in StrategyOutcomes(order[1], ps, po, seed)} :
        order \in {<<"swap_random_steps", "inner_step">>,
                   <<"inner_step", "swap_random_steps">>}}

\* _crossover: shuffle the two strategies, return True at the first one
\* that returns True, False when none does; an error ends the call
CrossoverOutcomes(ps, po, seed) ==
    UNION {UNION {
        IF o1.ret = "True" \/ o1.ret \in Errors
        THEN {[self |-> o1.self, other |-> o1.other, ret |-> o1.ret,
               at |-> o1.at, n |-> o1.n, delegated |-> o1.delegated,
               order |-> order, calls |-> <<Call(order[1], o1)>>]}
        ELSE {[self |-> o2.self, other |-> o2.other,
               ret |-> o2.ret,
               at |-> o2.at, n |-> o2.n,
               delegated |-> o1.delegated \cup o2.delegated,
               order |-> order,
               calls |-> <<Call(order[1], o1), Call(order[2], o2)>>] :
                 o2 \in StrategyOutcomes(order[2], o1.self, o1.other, seed)} :
            o1 \in StrategyOutcomes(order[1], ps, po, seed)} :
        order \in {<<"swap_random_steps", "inner_step">>,
                   <<"inner_step", "swap_random_steps">>}}

\* --------------------------------------------------------------- identity
\* unique_id: TupleIndex(("DynamicLinearPipeline", uid_0, uid_1, ...))
unique_id_sorted(p) ==
    LET na == Cardinality({k \in DOMAIN p : p[k].uid = "A"}) IN
    <<Token>> \o [k \in DOMAIN p |-> IF k <= na THEN "A" ELSE "B"]

unique_id(p) == <<Token>> \o UidSeq(p)

\* ------------------------------------------------------------------ state
NoCall == [op |-> "init", self |-> 0, other |-> 0, chosen |-> "none",
           ret |-> "None", at |-> -1, n |-> 0, delegated |-> {},
           order |-> <<>>, calls |-> <<>>]

OtherObjs(i) == UNION {Objs(pipeline[j]) : j \in Individuals \ {i}}
AllObjs == UNION {Objs(pipeline[j]) : j \in Individuals}

\* the generator and a population of two individuals it generated
Init ==
    /\ max_length \in 2 .. MaxLengthBound
    /\ \E seed \in Seeds :
         \E p1 \in GenerateOutcomes(max_length, {}, seed) :
           \E p2 \in GenerateOutcomes(max_length, Objs(p1), seed) :
             pipeline = [i \in Individuals |-> IF i = 1 THEN p1 ELSE p2]
    /\ last = NoCall
    /\ nops = 0

\* DynamicLinearPipeline.generate: slot i is replaced by a new individual
Generate(i, seed) ==
    \E p \in GenerateOutcomes(max_length, OtherObjs(i), seed) :
        /\ pipeline' = [pipeline EXCEPT ![i] = p]
        /\ last' = [NoCall EXCEPT !.op = "generate", !.self = i]
        /\ nops' = nops + 1
        /\ UNCHANGED max_length

Mutate(i, seed) ==
    \E o \in MutateOutcomes(pipeline[i], max_length, AllObjs, seed) :
        /\ pipeline' = [pipeline EXCEPT ![i] = o.pipeline]
        /\ last' = [NoCall EXCEPT !.op = "mutate", !.self = i,
                                  !.chosen = o.chosen]
        /\ nops' = nops + 1
        /\ UNCHANGED max_length

Commit(op, i, j, o, order, calls) ==
    /\ pipeline' = [pipeline EXCEPT ![i] = o.self, ![j] = o.other]
    /\ last' = [NoCall EXCEPT !.op = op, !.self = i, !.other = j,
                              !.ret = o.ret, !.at = o.at, !.n = o.n,
                              !.delegated = o.delegated,
                              !.order = order, !.calls = calls]
    /\ nops' = nops + 1
    /\ UNCHANGED max_length

SwapRandomSteps(i, j, seed) ==
    \E o \in SwapOutcomes(pipeline[i], pipeline[j], seed) :
        Commit("swap_random_steps", i, j, o, <<>>, <<>>)

InnerStep(i, j, seed) ==
    \E o \in InnerStepOutcomes(pipeline[i], pipeline[j], seed) :
        Commit("inner_step", i, j, o, <<>>, <<>>)

Crossover(i, j, seed) ==
    \E o \in CrossoverOutcomes(pipeline[i], pipeline[j], seed) :
        Commit("crossover", i, j, o, o.order, o.calls)

DoGenerate ==
    nops < MaxOps /\ \E i \in Individuals, seed \in Seeds : Generate(i, seed)
DoMutate ==
    nops < MaxOps /\ \E i \in Individuals, seed \in Seeds : Mutate(i, seed)
DoSwapRandomSteps ==
    nops < MaxOps /\ \E i, j \in Individuals, seed \in Seeds :
        i # j /\ SwapRandomSteps(i, j, seed)
DoInnerStep ==
    nops < MaxOps /\ \E i, j \in Individuals, seed \in Seeds :
        i # j /\ InnerStep(i, j, seed)
DoCrossover ==
    nops < MaxOps /\ \E i, j \in Individuals, seed \in Seeds :
        i # j /\ Crossover(i, j, seed)

Next ==
    \/ DoGenerate
    \/ DoMutate
    \/ DoSwapRandomSteps
    \/ DoInnerStep
    \/ DoCrossover

Spec == Init /\ [][Next]_vars

\* ------------------------------------------- swap-random-steps on its own
\* A population later in a run: two individuals grown by _mutate_add_node
\* to any lengths in min_length .. max_length, and one call of
\* _crossover_swap_random_steps on it.
InitSwap ==
    /\ max_length \in 2 .. MaxSwapLength
    /\ \E k1, k2 \in min_length .. max_length :
         \E p1 \in GenLoop(<<>>, {}, k1) :
           \E p2 \in GenLoop(<<>>, Objs(p1), k2) :
             pipeline = [i \in Individuals |-> IF i = 1 THEN p1 ELSE p2]
    /\ last = NoCall
    /\ nops = 0

SwapOnce ==
    nops = 0 /\ \E i, j \in Individuals, seed \in Seeds :
        i # j /\ SwapRandomSteps(i, j, seed)

NextSwap == SwapOnce

SpecSwap == InitSwap /\ [][NextSwap]_vars

\* ================================================================ claims
Self == pipeline[last.self]
Other == pipeline[last.other]

\* C1: every pipeline keeps min_length <= len <= max_length through any
\* sequence of generate, mutate and crossover calls; a mutate that chose
\* remove started above min_length and one that chose add started below
\* max_length.
LengthBounded ==
    \A i \in Individuals :
        min_length <= Len(pipeline[i]) /\ Len(pipeline[i]) <= max_length

DispatcherStep ==
    last'.op = "mutate" =>
        LET before == Len(pipeline[last'.self])
            after == Len(pipeline'[last'.self]) IN
        /\ last'.chosen = "remove" =>
               before > min_length /\ after = before - 1
        /\ last'.chosen = "add" =>
               before < max_length /\ after = before + 1
        /\ last'.chosen = "step" => after = before

C1_LengthWithinBounds == []LengthBounded /\ [][DispatcherStep]_vars

\* a mutate on a pipeline already at max_length, which chose step
C1_Witness ==
    /\ last.op = "mutate" /\ last.chosen = "step"
    /\ Len(Self) = max_length

\* C2: a freshly generated individual has
\* 1 <= len(pipeline) <= min(max_length - 1, 3).
FreshLengthOk(i) ==
    1 <= Len(pipeline[i]) /\ Len(pipeline[i]) <= Min(max_length - 1, 3)

C2_FreshLength ==
    /\ last.op = "init" => \A i \in Individuals : FreshLengthOk(i)
    /\ last.op = "generate" => FreshLengthOk(last.self)

\* generate with max_length = 5 gave the capped length 3
C2_Witness ==
    last.op = "generate" /\ max_length = 5 /\ Len(Self) = 3

\* C3: a mutate or crossover call that ends with an error leaves both
\* pipelines, and the Steps in them, as they were before the call.
C3_FailureLeavesState ==
    [][last'.ret \in Errors => pipeline' = pipeline]_vars

\* C4: inner-step crossover with other.pipeline shorter than self.pipeline
\* never returns a boolean, and its out-of-range error is at the first list
\* item that other lacks.
C4_InnerStepMustFail ==
    [][(last'.op = "inner_step"
        /\ Len(pipeline[last'.other]) < Len(pipeline[last'.self]))
       => /\ last'.ret \notin Booleans
          /\ last'.ret = "IndexError" =>
                 last'.at = Len(pipeline[last'.other])]_vars

\* C5: a crossover that returns ran a prefix of a shuffled order of the two
\* strategies, stopped at the first one that returned True and returned
\* True then, and returned False only after both returned False;
\* swap-random-steps always returns True and inner-step returns True iff a
\* delegated Step crossover returned True.
StrategyRetOk(c) ==
    /\ c.name = "swap_random_steps" => c.ret = "True"
    /\ c.name = "inner_step" =>
           (c.ret = "True" <=> "True" \in last.delegated)

C5_CrossoverShortCircuit ==
    /\ (last.op = "crossover" /\ last.ret \in Booleans) =>
        /\ last.order \in {<<"swap_random_steps", "inner_step">>,
                           <<"inner_step", "swap_random_steps">>}
        /\ Len(last.calls) \in 1 .. 2
        /\ \A k \in DOMAIN last.calls :
             /\ last.calls[k].name = last.order[k]
             /\ StrategyRetOk(last.calls[k])
             /\ k < Len(last.calls) => last.calls[k].ret = "False"
        /\ last.calls[Len(last.calls)].ret = last.ret
        /\ last.ret = "False" => Len(last.calls) = 2
    /\ (last.op = "inner_step" /\ last.ret \in Booleans) =>
        (last.ret = "True" <=> "True" \in last.delegated)

\* inner-step ran first, its delegated crossovers all returned False, and
\* swap-random-steps then made the call return True
C5_Witness ==
    /\ last.op = "crossover" /\ last.ret = "True"
    /\ Len(last.calls) = 2
    /\ last.calls[1] = [name |-> "inner_step", ret |-> "False"]
    /\ last.delegated = {"False"}

\* C6: swap-random-steps leaves both lengths as they were, returns True,
\* and the Steps of the two pipelines together are the same Steps as
\* before, each still held once.
C6_SwapKeepsLengths ==
    [][last'.op = "swap_random_steps" =>
        LET s == last'.self
            o == last'.other IN
        /\ Len(pipeline'[s]) = Len(pipeline[s])
        /\ Len(pipeline'[o]) = Len(pipeline[o])
        /\ StepsOf(pipeline'[s]) \cup StepsOf(pipeline'[o])
             = StepsOf(pipeline[s]) \cup StepsOf(pipeline[o])
        /\ StepsOf(pipeline'[s]) \cap StepsOf(pipeline'[o]) = {}
        /\ last'.ret = "True"]_vars

\* the pipelines of lengths 4 and 2 after a swap: a Step of the short one
\* is now in the long one
C6_Witness ==
    /\ last.op = "swap_random_steps" /\ last.self = 1
    /\ Len(pipeline[1]) = 4 /\ Len(pipeline[2]) = 2
    /\ \E k \in DOMAIN pipeline[1] : pipeline[1][k].obj > 4

\* C7: unique_id() is the discriminator token followed by the Steps'
\* unique_ids in pipeline order: two pipelines have equal keys exactly when
\* their unique_id sequences are equal, and exchanging two Steps with
\* distinct ids, removing a Step or inserting a Step changes the key.
Exchanged(p, a, b) == [p EXCEPT ![a] = p[b], ![b] = p[a]]

C7_UniqueIdOfContent ==
    \A i \in Individuals :
        LET p == pipeline[i] IN
        /\ Head(unique_id(p)) = Token
        /\ Tail(unique_id(p)) = UidSeq(p)
        /\ \A j \in Individuals :
             (unique_id(p) = unique_id(pipeline[j]))
                <=> (UidSeq(p) = UidSeq(pipeline[j]))
        /\ \A a, b \in DOMAIN p :
             p[a].uid # p[b].uid =>
                 unique_id(Exchanged(p, a, b)) # unique_id(p)
        /\ \A idx \in 0 .. (Len(p) - 1) :
             /\ unique_id(RemoveAt(p, idx)) # unique_id(p)
             /\ \A l \in Labels :
                  unique_id(InsertAt(p, idx, [obj |-> 0, uid |-> l]))
                     # unique_id(p)

\* two individuals made of different Steps, with different unique_ids in
\* each pipeline, that reached equal unique_id sequences
C7_Witness ==
    /\ nops > 0
    /\ UidSeq(pipeline[1]) = UidSeq(pipeline[2])
    /\ \E a, b \in DOMAIN pipeline[1] : pipeline[1][a].uid # pipeline[1][b].uid
    /\ Objs(pipeline[1]) \cap Objs(pipeline[2]) = {}

\* C8: with the same seed handed in, a call has one possible result: the
\* seed decides the generated pipeline, the result of mutate and the result
\* of crossover.
C8_Reproducible ==
    \A seed \in Seeds :
        /\ Cardinality(GenerateOutcomes(max_length, {}, seed)) = 1
        /\ \A i \in Individuals :
             Cardinality(MutateOutcomes(pipeline[i], max_length,
                                        AllObjs, seed)) = 1
        /\ \A i, j \in Individuals :
             i # j => Cardinality(CrossoverOutcomes(pipeline[i],
                                                    pipeline[j], seed)) = 1

\* C9: every Step object is at one position of one pipeline at most.
C9_SingleOwner ==
    \A i, j \in Individuals :
        \A a \in DOMAIN pipeline[i], b \in DOMAIN pipeline[j] :
            (i # j \/ a # b) => pipeline[i][a].obj # pipeline[j][b].obj

\* a swap moved the first Step of individual 1 into individual 2
C9_Witness ==
    /\ nops = 1 /\ last.op = "swap_random_steps"
    /\ 1 \in Objs(pipeline[2]) /\ 1 \notin Objs(pipeline[1])

\* C10: swap-random-steps exchanges n Steps, n = 1 when max_steps = 1 and
\* 1 <= n < max_steps otherwise, with
\* max_steps = max(1, floor(min(len(self), len(other)) / 2)); exactly n
\* Steps go from self to other and exactly n from other to self.
C10_SwapCount ==
    [][last'.op = "swap_random_steps" =>
        LET s == last'.self
            o == last'.other
            lo == Min(Len(pipeline[s]), Len(pipeline[o]))
            max_steps == Max(1, lo \div 2)
            n == last'.n IN
        /\ max_steps = 1 => n = 1
        /\ max_steps > 1 => (1 <= n /\ n < max_steps)
        /\ Cardinality(Objs(pipeline[s]) \cap Objs(pipeline'[o])) = n
        /\ Cardinality(Objs(pipeline[o]) \cap Objs(pipeline'[s])) = n
        /\ Cardinality({k \in DOMAIN pipeline[s] :
                          pipeline'[s][k] # pipeline[s][k]}) = n
        /\ Cardinality({k \in DOMAIN pipeline[o] :
                          pipeline'[o][k] # pipeline[o][k]}) = n]_vars

\* two pipelines of length 6 (max_steps = 3) exchanged two Steps
C10_Witness ==
    /\ last.op = "swap_random_steps" /\ last.n = 2 /\ last.self = 1
    /\ Len(pipeline[1]) = 6 /\ Len(pipeline[2]) = 6
    /\ Cardinality({k \in DOMAIN pipeline[1] : pipeline[1][k].obj > 6}) = 2

====
